---- MODULE Spec2Model ----
(***************************************************************************)
(* MowBot: the job table (grounds_data), the chat handlers of              *)
(* telegram_bot.py that write it, and the GroundService operations of      *)
(* src/bot/services/ground_service.py that write the same table.           *)
(*                                                                         *)
(* Every handler is one atomic action: between its SELECT and its          *)
(* UPDATE/commit there is no await, and the awaits that follow only edit   *)
(* chat messages.                                                          *)
(***************************************************************************)
EXTENDS Integers, Sequences, FiniteSets, TLC

\* ------------------------------------------------------------------ bounds
\* Rows of grounds_data: ids 1..NumJobs.
NumJobs == 1
\* The clock (datetime.now()) runs over 0..MaxClock.
MaxClock == 1
\* The pages a director asks for: 1..MaxPage.
MaxPage == 3
\* The callbacks, or the calls of get_weather_forecast, that can be in
\* flight at once: requests 1..NumTaps.
NumTaps == 2
\* The time the weather calls are followed for, in cache lifetimes, and the
\* seconds the weather API takes at most to answer a request.
MaxElapsed == 1
FetchTime == 1

\* --------------------------------------------------------------- constants
\* SQL NULL / Python None of a nullable integer or timestamp column.
NULL == -1
\* settings.MAX_PHOTOS_PER_JOB, and the literal 25 of handle_photo.
MAX_PHOTOS_PER_JOB == 25
\* settings.employee_users: Andy and Alex.
Andy == 1672989849
Alex == 777888999
employee_users == {Andy, Alex}
\* jobs_per_page of build_director_assign_jobs_page.
jobs_per_page == 10

\* The rows of the table, and the job ids a request may carry: one id more
\* than the table holds, so that a request can name a job that does not exist.
Rows == 1..NumJobs
JobIds == 1..(NumJobs + 1)
\* The rows of a table that fills more than one page of the assignment list.
PageRows == 1..(jobs_per_page + NumJobs)

\* scheduled_date is a 'YYYY-MM-DD' string or NULL; a run stays within one
\* calendar day, so a date is either today's or another day's.
Today == "today"
OtherDay == "other"
NoDate == "NULL"

\* settings.director_users and settings.dev_users (Andy is in both tables).
director_users == {987654321, 111222333}
Tan == 972438138
dev_users == {Andy, Tan}
\* A Telegram user whose id is in none of the role tables.
Stranger == Andy + 1
\* The chat users: any of them can send any callback or message.
Users == employee_users \cup director_users \cup {Stranger}
\* The user that sends photos, and the one that selects and assigns jobs,
\* in the behaviours explored.
Uploaders == {Andy}
Dispatchers == {987654321}

\* The photos column is one string: the paths joined by '|'. It is modelled
\* as the sequence of its tokens, a path or the separator; <<>> is NULL/''.
\* A path is 'photos/job_<job_id>_<file_id>.jpg': non-empty, and without '|'.
Sep == [job |-> 0, file |-> "|"]
PhotoPath(job_id, file_id) == [job |-> job_id, file |-> file_id]
\* The file a photo message carries, and a file stored by an earlier session.
NewFiles == {"new"}
OldFile == "old"

VARIABLES
    grounds_data,   \* the table: row id -> record of the columns that change
    user_data,      \* context.user_data of each chat user
    now,            \* datetime.now()
    reply,          \* what the last handler or service call reported
    requests,       \* the callbacks and calls in flight: where each one stands
    job_notes,      \* the table job_notes: its rows in the order of insertion
    weather_cache   \* weather_integration.weather_cache: key -> (data, timestamp)

vars == <<grounds_data, user_data, now, reply, requests, job_notes,
          weather_cache>>

\* ---------------------------------------------------------------- the table
\* A row as CREATE TABLE / the Ground model leave it: status defaults to
\* 'pending', every other column is NULL.
NewRow ==
    [status |-> "pending", assigned_to |-> NULL, scheduled_date |-> NoDate,
     start_time |-> NULL, finish_time |-> NULL, photos |-> <<>>]

Exists(job_id) == job_id \in DOMAIN grounds_data

Said(op, ok, msg, count) == [op |-> op, ok |-> ok, msg |-> msg, count |-> count]

\* context.user_data of a user that has pressed nothing yet. An absent
\* "selected_jobs" key is the empty set: every read is .get(key, set()) or
\* 'key not in user_data or not user_data[key]'.
NewSession ==
    [awaiting_photo_for |-> NULL, bulk_upload_mode |-> FALSE,
     selected_jobs |-> {}, current_page |-> 1, awaiting_note_for |-> NULL]

\* weather_integration: CACHE_EXPIRY seconds, the (location, days) pairs a
\* call may carry (cache_key is f"{location}_{days}", one string per pair),
\* and a key that weather_cache does not hold.
CACHE_EXPIRY == 3600
CacheKeys == {<<"Bristol,UK", 1>>, <<"Bristol,UK", 2>>}
NoEntry == [data |-> NULL, timestamp |-> NULL]

\* The callbacks that may be in flight, and one that has not arrived yet.
\* pc is where its handler stands, data the prefix of its callback data,
\* outcome the message its handler chose, wrote the start_time it wrote.
ReqIds == 1..NumTaps
NoRequest ==
    [pc |-> "none", data |-> "none", job_id |-> NULL,
     outcome |-> "none", wrote |-> NULL]

Init ==
    /\ requests = [r \in ReqIds |-> NoRequest]
    /\ job_notes = <<>>
    /\ weather_cache = [k \in CacheKeys |-> NoEntry]
    /\ grounds_data = [r \in Rows |-> NewRow]
    /\ user_data = [u \in Users |-> NewSession]
    /\ now = 0
    /\ reply = Said("none", TRUE, "none", 0)

\* datetime.now() moves on.
Tick ==
    /\ now < MaxClock
    /\ now' = now + 1
    /\ UNCHANGED <<grounds_data, user_data, reply>>

\* ------------------------------------------------------ the photos column
\* len(photos.split('|')) of a non-empty string: the separators plus one.
SplitLen(photos) ==
    Cardinality({i \in 1..Len(photos) : photos[i] = Sep}) + 1

\* 'len(current.split("|")) if current and current.strip() else 0'
PhotoCount(photos) == IF photos = <<>> THEN 0 ELSE SplitLen(photos)

\* Mutant of JoinPhoto: the new path is put in front of the stored ones.
JoinPhoto_Prepend(photos, photo_path) ==
    IF photos = <<>> THEN <<photo_path>> ELSE <<photo_path, Sep>> \o photos

\* 'current.strip() + "|" + photo_path if current else photo_path'
JoinPhoto(photos, photo_path) ==
    IF photos = <<>> THEN <<photo_path>> ELSE photos \o <<Sep, photo_path>>

\* photos.split('|'): the ordered list of the stored paths.
PhotoList(photos) == SelectSeq(photos, LAMBDA t : t # Sep)

\* ------------------------------------------------- telegram_bot.py handlers
emp_start_job(job_id) ==
    /\ UNCHANGED <<now, user_data>>
    /\ IF ~Exists(job_id)
       THEN /\ reply' = Said("emp_start_job", FALSE, "Job not found", 0)
            /\ UNCHANGED grounds_data
       ELSE IF grounds_data[job_id].status = "in_progress"
       THEN /\ reply' = Said("emp_start_job", FALSE, "Already Started", 0)
            /\ UNCHANGED grounds_data
       ELSE /\ grounds_data' = [grounds_data EXCEPT
                                  ![job_id].status = "in_progress",
                                  ![job_id].start_time = now]
            /\ reply' = Said("emp_start_job", TRUE, "Job Started", 0)

\* Mutant of emp_finish_job: only a pending job is turned away, so a
\* completed job is finished again.
emp_finish_job_RefinishesCompleted(job_id) ==
    /\ UNCHANGED <<now, user_data>>
    /\ IF ~Exists(job_id)
       THEN /\ reply' = Said("emp_finish_job", FALSE, "Job not found", 0)
            /\ UNCHANGED grounds_data
       ELSE IF grounds_data[job_id].status = "pending"
       THEN /\ reply' = Said("emp_finish_job", FALSE, "Not Started", 0)
            /\ UNCHANGED grounds_data
       ELSE /\ grounds_data' = [grounds_data EXCEPT
                                  ![job_id].status = "completed",
                                  ![job_id].finish_time = now]
            /\ reply' = Said("emp_finish_job", TRUE, "Job Completed", 0)

emp_finish_job(job_id) ==
    /\ UNCHANGED <<now, user_data>>
    /\ IF ~Exists(job_id)
       THEN /\ reply' = Said("emp_finish_job", FALSE, "Job not found", 0)
            /\ UNCHANGED grounds_data
       ELSE IF grounds_data[job_id].status = "completed"
       THEN /\ reply' = Said("emp_finish_job", FALSE, "Already Completed", 0)
            /\ UNCHANGED grounds_data
       ELSE IF grounds_data[job_id].status # "in_progress"
       THEN /\ reply' = Said("emp_finish_job", FALSE, "Not Started", 0)
            /\ UNCHANGED grounds_data
       ELSE /\ grounds_data' = [grounds_data EXCEPT
                                  ![job_id].status = "completed",
                                  ![job_id].finish_time = now]
            /\ reply' = Said("emp_finish_job", TRUE, "Job Completed", 0)

\* The rows the daily UPDATE's WHERE clause selects.
DailyResetRows ==
    {r \in DOMAIN grounds_data :
        /\ grounds_data[r].status = "completed"
        /\ grounds_data[r].scheduled_date \in {NoDate, Today}}

\* Mutant of reset_jobs_daily: the timestamps and the assignment are
\* cleared but the status is left as it was.
reset_jobs_daily_KeepsStatus ==
    /\ grounds_data' =
         [r \in DOMAIN grounds_data |->
            IF r \in DailyResetRows
            THEN [grounds_data[r] EXCEPT
                    !.assigned_to = NULL,
                    !.start_time = NULL, !.finish_time = NULL]
            ELSE grounds_data[r]]
    /\ reply' = Said("reset_jobs_daily", TRUE, "Reset completed jobs",
                     Cardinality(DailyResetRows))
    /\ UNCHANGED <<now, user_data>>

reset_jobs_daily ==
    /\ grounds_data' =
         [r \in DOMAIN grounds_data |->
            IF r \in DailyResetRows
            THEN [grounds_data[r] EXCEPT
                    !.status = "pending", !.assigned_to = NULL,
                    !.start_time = NULL, !.finish_time = NULL]
            ELSE grounds_data[r]]
    /\ reply' = Said("reset_jobs_daily", TRUE, "Reset completed jobs",
                     Cardinality(DailyResetRows))
    /\ UNCHANGED <<now, user_data>>

\* ORDER BY id: the ids of a set of rows in ascending order.
RECURSIVE OrderById(_)
OrderById(ids) ==
    IF ids = {} THEN <<>>
    ELSE LET first == CHOOSE x \in ids : \A y \in ids : x <= y
         IN <<first>> \o OrderById(ids \ {first})

\* Mutant of build_director_assign_jobs_page: the offset is page *
\* jobs_per_page.
build_director_assign_jobs_page_OffsetByPage(page) ==
    LET offset == page * jobs_per_page
        unassigned == OrderById({r \in DOMAIN grounds_data :
                                    grounds_data[r].assigned_to = NULL})
        last == IF offset + jobs_per_page < Len(unassigned)
                THEN offset + jobs_per_page ELSE Len(unassigned)
    IN SubSeq(unassigned, offset + 1, last)

\* The job ids of one page of the assignment list: SELECT ... WHERE
\* assigned_to IS NULL ORDER BY id LIMIT jobs_per_page OFFSET (page - 1) *
\* jobs_per_page.
build_director_assign_jobs_page(page) ==
    LET offset == (page - 1) * jobs_per_page
        unassigned == OrderById({r \in DOMAIN grounds_data :
                                    grounds_data[r].assigned_to = NULL})
        last == IF offset + jobs_per_page < Len(unassigned)
                THEN offset + jobs_per_page ELSE Len(unassigned)
    IN SubSeq(unassigned, offset + 1, last)

\* callback 'page_<n>': the page is remembered and drawn. "Next" is offered
\* when the page is full.
callback_handler_page(u, page) ==
    LET jobs == build_director_assign_jobs_page(page) IN
    /\ user_data' = [user_data EXCEPT ![u].current_page = page]
    /\ reply' = [op |-> "page_", ok |-> TRUE,
                 msg |-> IF jobs = <<>> THEN "No Jobs Available"
                                        ELSE "Available Jobs",
                 count |-> Len(jobs), page |-> page, jobs |-> jobs,
                 has_next |-> (Len(jobs) = jobs_per_page)]
    /\ UNCHANGED <<grounds_data, now>>

\* "Assign Jobs": the selection starts empty.
director_assign_jobs_list(u) ==
    /\ user_data' = [user_data EXCEPT ![u].selected_jobs = {},
                                      ![u].current_page = 1]
    /\ reply' = Said("director_assign_jobs_list", TRUE, "Available Jobs", 0)
    /\ UNCHANGED <<grounds_data, now>>

\* Mutant of ToggleSelection: the job id is added, never removed.
ToggleSelection_AddOnly(selected_jobs, job_id) == selected_jobs \cup {job_id}

\* 'if job_id in selected_jobs: remove(job_id) else: add(job_id)'
ToggleSelection(selected_jobs, job_id) ==
    IF job_id \in selected_jobs
    THEN selected_jobs \ {job_id}
    ELSE selected_jobs \cup {job_id}

\* A tap on a job of the list: the job id enters or leaves the selection.
handle_toggle_job(u, job_id) ==
    /\ user_data' = [user_data EXCEPT ![u].selected_jobs =
                        ToggleSelection(@, job_id)]
    /\ reply' = Said("handle_toggle_job", TRUE, "Available Jobs", 0)
    /\ UNCHANGED <<grounds_data, now>>

\* "Assign Selected": without a selection it is turned away, with one the
\* employees are offered.
director_assign_jobs(u) ==
    /\ reply' = IF user_data[u].selected_jobs = {}
                THEN Said("director_assign_jobs", FALSE, "No Jobs Selected", 0)
                ELSE Said("director_assign_jobs", TRUE, "Select Employee", 0)
    /\ UNCHANGED <<grounds_data, user_data, now>>

\* Mutant of assign_jobs_to_employee: a job that has a worker already is
\* left with that worker.
assign_jobs_to_employee_SkipsAssigned(u, employee_id) ==
    LET selected_jobs == user_data[u].selected_jobs IN
    /\ UNCHANGED now
    /\ IF selected_jobs = {}
       THEN /\ reply' = Said("assign_jobs_to_employee", FALSE, "No Jobs Selected", 0)
            /\ UNCHANGED <<grounds_data, user_data>>
       ELSE /\ grounds_data' =
                 [r \in DOMAIN grounds_data |->
                    IF r \in selected_jobs /\ grounds_data[r].assigned_to = NULL
                    THEN [grounds_data[r] EXCEPT !.assigned_to = employee_id]
                    ELSE grounds_data[r]]
            /\ user_data' = [user_data EXCEPT ![u].selected_jobs = {}]
            /\ reply' = Said("assign_jobs_to_employee", TRUE, "Jobs Assigned", 0)

\* Mutant of assign_jobs_to_employee: the selection is not deleted.
assign_jobs_to_employee_KeepsSelection(u, employee_id) ==
    LET selected_jobs == user_data[u].selected_jobs IN
    /\ UNCHANGED now
    /\ IF selected_jobs = {}
       THEN /\ reply' = Said("assign_jobs_to_employee", FALSE, "No Jobs Selected", 0)
            /\ UNCHANGED <<grounds_data, user_data>>
       ELSE /\ grounds_data' =
                 [r \in DOMAIN grounds_data |->
                    IF r \in selected_jobs
                    THEN [grounds_data[r] EXCEPT !.assigned_to = employee_id]
                    ELSE grounds_data[r]]
            /\ UNCHANGED user_data
            /\ reply' = Said("assign_jobs_to_employee", TRUE, "Jobs Assigned", 0)

\* Mutant of assign_jobs_to_employee: the selection is not tested for being
\* empty.
assign_jobs_to_employee_NoEmptyCheck(u, employee_id) ==
    LET selected_jobs == user_data[u].selected_jobs IN
    /\ UNCHANGED now
    /\ grounds_data' =
         [r \in DOMAIN grounds_data |->
            IF r \in selected_jobs
            THEN [grounds_data[r] EXCEPT !.assigned_to = employee_id]
            ELSE grounds_data[r]]
    /\ user_data' = [user_data EXCEPT ![u].selected_jobs = {}]
    /\ reply' = Said("assign_jobs_to_employee", TRUE, "Jobs Assigned", 0)

\* "Assign to <employee>": one UPDATE of assigned_to per selected job, one
\* commit, then the selection is deleted.
assign_jobs_to_employee(u, employee_id) ==
    LET selected_jobs == user_data[u].selected_jobs IN
    /\ UNCHANGED now
    /\ IF selected_jobs = {}
       THEN /\ reply' = Said("assign_jobs_to_employee", FALSE, "No Jobs Selected", 0)
            /\ UNCHANGED <<grounds_data, user_data>>
       ELSE /\ grounds_data' =
                 [r \in DOMAIN grounds_data |->
                    IF r \in selected_jobs
                    THEN [grounds_data[r] EXCEPT !.assigned_to = employee_id]
                    ELSE grounds_data[r]]
            /\ user_data' = [user_data EXCEPT ![u].selected_jobs = {}]
            /\ reply' = Said("assign_jobs_to_employee", TRUE, "Jobs Assigned", 0)

\* "Upload Photo": the prompt is opened for job_id, always in bulk mode.
emp_upload_photo(u, job_id) ==
    /\ user_data' = [user_data EXCEPT ![u].awaiting_photo_for = job_id,
                                      ![u].bulk_upload_mode = TRUE]
    /\ reply' = Said("emp_upload_photo", TRUE, "Bulk Photo Upload Mode", 0)
    /\ UNCHANGED <<grounds_data, now>>

\* "Done Uploading": both keys are popped, the total is reported.
finish_photo_upload(u, job_id) ==
    /\ user_data' = [user_data EXCEPT ![u].awaiting_photo_for = NULL,
                                      ![u].bulk_upload_mode = FALSE]
    /\ reply' = IF Exists(job_id) /\ grounds_data[job_id].photos # <<>>
                THEN Said("finish_photo_upload", TRUE, "Upload Complete",
                          SplitLen(grounds_data[job_id].photos))
                ELSE Said("finish_photo_upload", TRUE, "job menu", 0)
    /\ UNCHANGED <<grounds_data, now>>

\* The employee dashboard deletes the prompt (and leaves bulk_upload_mode).
emp_employee_dashboard(u) ==
    /\ user_data' = [user_data EXCEPT ![u].awaiting_photo_for = NULL]
    /\ reply' = Said("emp_employee_dashboard", TRUE, "Employee Dashboard", 0)
    /\ UNCHANGED <<grounds_data, now>>

\* Mutant of handle_photo: the limit test is '>' instead of '>='.
handle_photo_LimitOffByOne(u, file_id, file_ok) ==
    LET job_id == user_data[u].awaiting_photo_for
        current == IF Exists(job_id) THEN grounds_data[job_id].photos ELSE <<>>
        new_photos == JoinPhoto(current, PhotoPath(job_id, file_id))
        current_count == PhotoCount(current)
    IN
    /\ UNCHANGED <<user_data, now>>
    /\ IF job_id = NULL
       THEN /\ reply' = Said("handle_photo", FALSE, "No photo expected", 0)
            /\ UNCHANGED grounds_data
       ELSE IF ~file_ok
       THEN /\ reply' = Said("handle_photo", FALSE, "Photo processing failed", 0)
            /\ UNCHANGED grounds_data
       ELSE IF current_count > 25
       THEN /\ reply' = Said("handle_photo", FALSE, "Photo Limit Reached", 0)
            /\ UNCHANGED grounds_data
       ELSE /\ grounds_data' =
                 IF Exists(job_id)
                 THEN [grounds_data EXCEPT ![job_id].photos = new_photos]
                 ELSE grounds_data
            /\ reply' = IF user_data[u].bulk_upload_mode
                        THEN Said("handle_photo", TRUE, "no confirmation", 0)
                        ELSE Said("handle_photo", TRUE, "Photo uploaded",
                                  SplitLen(new_photos))

\* A photo message of user u carrying file file_id; file_ok is whether the
\* download, the verification and the save of the image succeeded.
handle_photo(u, file_id, file_ok) ==
    LET job_id == user_data[u].awaiting_photo_for
        current == IF Exists(job_id) THEN grounds_data[job_id].photos ELSE <<>>
        new_photos == JoinPhoto(current, PhotoPath(job_id, file_id))
        current_count == PhotoCount(current)
    IN
    /\ UNCHANGED <<user_data, now>>
    /\ IF job_id = NULL
       THEN /\ reply' = Said("handle_photo", FALSE, "No photo expected", 0)
            /\ UNCHANGED grounds_data
       ELSE IF ~file_ok
       THEN /\ reply' = Said("handle_photo", FALSE, "Photo processing failed", 0)
            /\ UNCHANGED grounds_data
       ELSE IF current_count >= 25
       THEN /\ reply' = Said("handle_photo", FALSE, "Photo Limit Reached", 0)
            /\ UNCHANGED grounds_data
       ELSE /\ grounds_data' =
                 IF Exists(job_id)
                 THEN [grounds_data EXCEPT ![job_id].photos = new_photos]
                 ELSE grounds_data
            /\ reply' = IF user_data[u].bulk_upload_mode
                        THEN Said("handle_photo", TRUE, "no confirmation", 0)
                        ELSE Said("handle_photo", TRUE, "Photo uploaded",
                                  SplitLen(new_photos))

\* ------------------------------------------------ GroundService operations
start_job(ground_id) ==
    /\ UNCHANGED <<now, user_data>>
    /\ IF ~Exists(ground_id)
       THEN /\ reply' = Said("start_job", FALSE, "Ground not found", 0)
            /\ UNCHANGED grounds_data
       ELSE IF grounds_data[ground_id].status = "completed"
       THEN /\ reply' = Said("start_job", FALSE, "Job is already completed", 0)
            /\ UNCHANGED grounds_data
       ELSE /\ grounds_data' = [grounds_data EXCEPT
                                  ![ground_id].status = "in_progress",
                                  ![ground_id].start_time = now]
            /\ reply' = Said("start_job", TRUE, "Job started successfully", 0)

finish_job(ground_id) ==
    /\ UNCHANGED <<now, user_data>>
    /\ IF ~Exists(ground_id)
       THEN /\ reply' = Said("finish_job", FALSE, "Ground not found", 0)
            /\ UNCHANGED grounds_data
       ELSE IF grounds_data[ground_id].status = "completed"
       THEN /\ reply' = Said("finish_job", FALSE, "Job is already completed", 0)
            /\ UNCHANGED grounds_data
       ELSE /\ grounds_data' = [grounds_data EXCEPT
                                  ![ground_id].status = "completed",
                                  ![ground_id].finish_time = now]
            /\ reply' = Said("finish_job", TRUE, "Job completed successfully", 0)

add_photo(ground_id, photo_path) ==
    LET current == grounds_data[ground_id].photos
        new_photos == JoinPhoto(current, photo_path)
    IN
    /\ UNCHANGED <<now, user_data>>
    /\ IF ~Exists(ground_id)
       THEN /\ reply' = Said("add_photo", FALSE, "Ground not found", 0)
            /\ UNCHANGED grounds_data
       ELSE IF PhotoCount(current) >= MAX_PHOTOS_PER_JOB
       THEN /\ reply' = Said("add_photo", FALSE, "Maximum number of photos reached",
                             PhotoCount(current))
            /\ UNCHANGED grounds_data
       ELSE /\ grounds_data' = [grounds_data EXCEPT ![ground_id].photos = new_photos]
            /\ reply' = Said("add_photo", TRUE, "Photo added successfully",
                             SplitLen(new_photos))

assign_to_employee(ground_id, employee_id, scheduled_date) ==
    /\ UNCHANGED <<now, user_data>>
    /\ IF ~Exists(ground_id)
       THEN /\ reply' = Said("assign_to_employee", FALSE, "Ground not found", 0)
            /\ UNCHANGED grounds_data
       ELSE /\ grounds_data' = [grounds_data EXCEPT
                                  ![ground_id].assigned_to = employee_id,
                                  ![ground_id].scheduled_date = scheduled_date,
                                  ![ground_id].status = "pending"]
            /\ reply' = Said("assign_to_employee", TRUE,
                             "Ground assigned successfully", 0)

\* The rows the service's query filters: completed and scheduled for today
\* (a NULL scheduled_date never equals today's date string).
ServiceResetRows ==
    {r \in DOMAIN grounds_data :
        /\ grounds_data[r].status = "completed"
        /\ grounds_data[r].scheduled_date = Today}

reset_completed_jobs ==
    /\ grounds_data' =
         [r \in DOMAIN grounds_data |->
            IF r \in ServiceResetRows
            THEN [grounds_data[r] EXCEPT
                    !.status = "pending", !.assigned_to = NULL,
                    !.finish_time = NULL]
            ELSE grounds_data[r]]
    /\ reply' = Said("reset_completed_jobs", TRUE, "reset",
                     Cardinality(ServiceResetRows))
    /\ UNCHANGED <<now, user_data>>

\* ---------------------------------------------------------- specifications
\* The chat handlers of telegram_bot.py that write status, the timestamps
\* and assigned_to.
NextChat ==
    \/ Tick /\ UNCHANGED <<requests, job_notes, weather_cache>>
    \/ \E j \in JobIds : emp_start_job(j) /\ UNCHANGED <<requests, job_notes, weather_cache>>
    \/ \E j \in JobIds : emp_finish_job(j) /\ UNCHANGED <<requests, job_notes, weather_cache>>
    \/ reset_jobs_daily /\ UNCHANGED <<requests, job_notes, weather_cache>>
    \/ \E u \in Dispatchers : director_assign_jobs_list(u) /\ UNCHANGED <<requests, job_notes, weather_cache>>
    \/ \E u \in Dispatchers, j \in JobIds : handle_toggle_job(u, j) /\ UNCHANGED <<requests, job_notes, weather_cache>>
    \/ \E u \in Dispatchers : director_assign_jobs(u) /\ UNCHANGED <<requests, job_notes, weather_cache>>
    \/ \E u \in Dispatchers, e \in employee_users : assign_jobs_to_employee(u, e) /\ UNCHANGED <<requests, job_notes, weather_cache>>

SpecChat == Init /\ [][NextChat]_vars

\* The operations of GroundService on the same table.
NextService ==
    \/ Tick /\ UNCHANGED <<requests, job_notes, weather_cache>>
    \/ \E j \in JobIds : start_job(j) /\ UNCHANGED <<requests, job_notes, weather_cache>>
    \/ \E j \in JobIds : finish_job(j) /\ UNCHANGED <<requests, job_notes, weather_cache>>
    \/ \E j \in JobIds, e \in employee_users, d \in {Today, OtherDay} :
          assign_to_employee(j, e, d) /\ UNCHANGED <<requests, job_notes, weather_cache>>
    \/ reset_completed_jobs /\ UNCHANGED <<requests, job_notes, weather_cache>>

SpecService == Init /\ [][NextService]_vars

\* The job lifecycle: every operation of either implementation that writes
\* status, start_time or finish_time.
Next ==
    \/ Tick /\ UNCHANGED <<requests, job_notes, weather_cache>>
    \/ \E j \in JobIds : emp_start_job(j) /\ UNCHANGED <<requests, job_notes, weather_cache>>
    \/ \E j \in JobIds : emp_finish_job(j) /\ UNCHANGED <<requests, job_notes, weather_cache>>
    \/ reset_jobs_daily /\ UNCHANGED <<requests, job_notes, weather_cache>>
    \/ \E j \in JobIds : start_job(j) /\ UNCHANGED <<requests, job_notes, weather_cache>>
    \/ \E j \in JobIds : finish_job(j) /\ UNCHANGED <<requests, job_notes, weather_cache>>
    \/ \E j \in JobIds, e \in employee_users, d \in {Today, OtherDay} :
          assign_to_employee(j, e, d) /\ UNCHANGED <<requests, job_notes, weather_cache>>
    \/ reset_completed_jobs /\ UNCHANGED <<requests, job_notes, weather_cache>>

Spec == Init /\ [][Next]_vars
\* The photo uploads. The table may already hold a photo of an earlier
\* session; no other operation writes the photos column.
InitPhoto ==
    /\ requests = [r \in ReqIds |-> NoRequest]
    /\ job_notes = <<>>
    /\ weather_cache = [k \in CacheKeys |-> NoEntry]
    /\ grounds_data \in
         [Rows -> {NewRow,
                   [NewRow EXCEPT !.photos = <<PhotoPath(0, OldFile)>>]}]
    /\ user_data = [u \in Users |-> NewSession]
    /\ now = 0
    /\ reply = Said("none", TRUE, "none", 0)

NextPhoto ==
    \/ \E u \in Uploaders, j \in JobIds : emp_upload_photo(u, j) /\ UNCHANGED <<requests, job_notes, weather_cache>>
    \/ \E u \in Uploaders, j \in JobIds : finish_photo_upload(u, j) /\ UNCHANGED <<requests, job_notes, weather_cache>>
    \/ \E u \in Uploaders, f \in NewFiles, ok \in BOOLEAN : handle_photo(u, f, ok) /\ UNCHANGED <<requests, job_notes, weather_cache>>
    \/ \E j \in JobIds, f \in NewFiles : add_photo(j, PhotoPath(j, f)) /\ UNCHANGED <<requests, job_notes, weather_cache>>

SpecPhoto == InitPhoto /\ [][NextPhoto]_vars
\* The scheduled reset over the days. At midnight date('now','localtime')
\* moves on: a date that was today's is another (a past) day's from then on.
\* The stored strings stay as they are; it is their relation to today that
\* the model keeps.
Midnight ==
    /\ grounds_data' =
         [r \in DOMAIN grounds_data |->
            IF grounds_data[r].scheduled_date = Today
            THEN [grounds_data[r] EXCEPT !.scheduled_date = OtherDay]
            ELSE grounds_data[r]]
    /\ UNCHANGED <<user_data, now, reply>>

\* The employees' requests, the assignment of a job to a day (today), the
\* passing of the days, and the reset that job_queue.run_daily runs on every
\* day of the week.
NextDaily ==
    \/ Tick /\ UNCHANGED <<requests, job_notes, weather_cache>>
    \/ \E j \in JobIds : emp_start_job(j) /\ UNCHANGED <<requests, job_notes, weather_cache>>
    \/ \E j \in JobIds : emp_finish_job(j) /\ UNCHANGED <<requests, job_notes, weather_cache>>
    \/ \E j \in JobIds, e \in employee_users : assign_to_employee(j, e, Today) /\ UNCHANGED <<requests, job_notes, weather_cache>>
    \/ Midnight /\ UNCHANGED <<requests, job_notes, weather_cache>>
    \/ reset_jobs_daily /\ UNCHANGED <<requests, job_notes, weather_cache>>

\* run_daily keeps running the reset: a reset that would change something is
\* not put off forever; and the days keep passing.
SpecDaily ==
    /\ Init
    /\ [][NextDaily]_vars
    /\ WF_vars(reset_jobs_daily /\ UNCHANGED <<requests, job_notes, weather_cache>>)
    /\ WF_vars(Midnight /\ UNCHANGED <<requests, job_notes, weather_cache>>)
\* The assignment list of a table of more than one page, some of whose jobs
\* are assigned already. No request of this specification writes the table.
InitPage ==
    /\ requests = [r \in ReqIds |-> NoRequest]
    /\ job_notes = <<>>
    /\ weather_cache = [k \in CacheKeys |-> NoEntry]
    /\ grounds_data \in
         [PageRows -> {NewRow, [NewRow EXCEPT !.assigned_to = Andy]}]
    /\ user_data = [u \in Users |-> NewSession]
    /\ now = 0
    /\ reply = Said("none", TRUE, "none", 0)

NextPage ==
    \/ \E u \in Dispatchers : director_assign_jobs_list(u) /\ UNCHANGED <<requests, job_notes, weather_cache>>
    \/ \E u \in Dispatchers, page \in 1..MaxPage : callback_handler_page(u, page) /\ UNCHANGED <<requests, job_notes, weather_cache>>

SpecPage == InitPage /\ [][NextPage]_vars
\* ------------------------------------------------ Start callbacks in flight
\* A tap on a Start button: the update reaches callback_handler, which first
\* awaits callback_query.answer(). data is 'start_job_' (emp_start_job) or
\* 'start_job_with_notes_' (JobHandler.start_job_with_notes, which calls
\* GroundService.start_job).
StartData == {"start_job_", "start_job_with_notes_"}

callback_handler_arrive(r, data, job_id) ==
    /\ requests[r].pc = "none"
    /\ requests' = [requests EXCEPT ![r] =
                      [NoRequest EXCEPT !.pc = "answering", !.data = data,
                                        !.job_id = job_id]]
    /\ UNCHANGED <<grounds_data, user_data, now, reply, job_notes, weather_cache>>

\* answer() has returned: the handler of the callback data runs next.
callback_handler_answered(r) ==
    /\ requests[r].pc = "answering"
    /\ requests' = [requests EXCEPT ![r].pc = "dispatch"]
    /\ UNCHANGED <<grounds_data, user_data, now, reply, job_notes, weather_cache>>

\* The handler runs from its SELECT to its commit without an await: the
\* status test and the UPDATE are one step. It then awaits the message edit.
callback_handler_dispatch(r) ==
    /\ requests[r].pc = "dispatch"
    /\ UNCHANGED <<job_notes, weather_cache>>
    /\ IF requests[r].data = "start_job_"
       THEN emp_start_job(requests[r].job_id)
       ELSE start_job(requests[r].job_id)
    /\ requests' = [requests EXCEPT
                      ![r].pc = "replying",
                      ![r].outcome = reply'.msg,
                      ![r].wrote = IF reply'.ok THEN now ELSE NULL]

\* The message edit has returned: the callback is handled.
callback_handler_done(r) ==
    /\ requests[r].pc = "replying"
    /\ requests' = [requests EXCEPT ![r].pc = "done"]
    /\ UNCHANGED <<grounds_data, user_data, now, reply, job_notes, weather_cache>>

NextRace ==
    \/ Tick /\ UNCHANGED <<requests, job_notes, weather_cache>>
    \/ \E r \in ReqIds, d \in StartData, j \in JobIds :
          callback_handler_arrive(r, d, j)
    \/ \E r \in ReqIds : callback_handler_answered(r)
    \/ \E r \in ReqIds : callback_handler_dispatch(r)
    \/ \E r \in ReqIds : callback_handler_done(r)

SpecRace == Init /\ [][NextRace]_vars
\* ------------------------------------------- assignment callbacks in flight
\* "Assign to <employee>" pressed by director u: callback data
\* 'assign_to_<employee_id>'. jobs is the selection the handler assigned,
\* order the position of its write among the handled callbacks. The
\* callbacks take the slots in the order they arrive, one per director.
callback_handler_arrive_assign(r, u, employee_id) ==
    /\ requests[r].pc = "none"
    /\ \A q \in ReqIds : q < r => requests[q].pc # "none"
    /\ \A q \in ReqIds : q < r => requests[q].user # u
    /\ requests' = [requests EXCEPT ![r] =
                      [pc |-> "answering", data |-> "assign_to_", user |-> u,
                       employee_id |-> employee_id, outcome |-> "none",
                       jobs |-> {}, order |-> 0]]
    /\ UNCHANGED <<grounds_data, user_data, now, reply, job_notes, weather_cache>>

\* Mutant of callback_handler_dispatch_assign: the handler is suspended
\* after each UPDATE of its loop, so it assigns one job of the selection per
\* step; jobs holds the ones it has done.
callback_handler_dispatch_assign_AwaitInLoop(r) ==
    LET u == requests[r].user
        todo == user_data[u].selected_jobs \ requests[r].jobs
    IN
    /\ requests[r].pc = "dispatch"
    /\ UNCHANGED <<job_notes, weather_cache>>
    /\ requests[r].data = "assign_to_"
    /\ UNCHANGED now
    /\ IF user_data[u].selected_jobs = {}
       THEN /\ reply' = Said("assign_jobs_to_employee", FALSE, "No Jobs Selected", 0)
            /\ requests' = [requests EXCEPT ![r].pc = "replying",
                                            ![r].outcome = reply'.msg]
            /\ UNCHANGED <<grounds_data, user_data>>
       ELSE IF todo # {}
       THEN \E j \in todo :
               /\ grounds_data' =
                    [x \in DOMAIN grounds_data |->
                       IF x = j
                       THEN [grounds_data[x] EXCEPT
                               !.assigned_to = requests[r].employee_id]
                       ELSE grounds_data[x]]
               /\ requests' = [requests EXCEPT ![r].jobs = @ \cup {j}]
               /\ UNCHANGED <<user_data, reply>>
       ELSE /\ user_data' = [user_data EXCEPT ![u].selected_jobs = {}]
            /\ reply' = Said("assign_jobs_to_employee", TRUE, "Jobs Assigned", 0)
            /\ requests' = [requests EXCEPT
                              ![r].pc = "replying",
                              ![r].outcome = reply'.msg,
                              ![r].order =
                                 1 + Cardinality({q \in ReqIds :
                                        requests[q].outcome # "none"})]
            /\ UNCHANGED grounds_data

\* assign_jobs_to_employee runs from reading the selection through the
\* UPDATE of every selected job to the commit without an await: one step. It
\* then awaits the message edit and the dashboard.
callback_handler_dispatch_assign(r) ==
    /\ requests[r].pc = "dispatch"
    /\ UNCHANGED <<job_notes, weather_cache>>
    /\ requests[r].data = "assign_to_"
    /\ assign_jobs_to_employee(requests[r].user, requests[r].employee_id)
    /\ requests' = [requests EXCEPT
                      ![r].pc = "replying",
                      ![r].outcome = reply'.msg,
                      ![r].jobs = user_data[requests[r].user].selected_jobs,
                      ![r].order =
                         1 + Cardinality({q \in ReqIds :
                                requests[q].outcome # "none"})]

\* A table of more than one job, so that a selection can hold several.
InitAssign ==
    /\ requests = [r \in ReqIds |-> NoRequest]
    /\ job_notes = <<>>
    /\ weather_cache = [k \in CacheKeys |-> NoEntry]
    /\ grounds_data = [r \in JobIds |-> NewRow]
    /\ user_data = [u \in Users |-> NewSession]
    /\ now = 0
    /\ reply = Said("none", TRUE, "none", 0)

\* Two directors select and assign while an employee starts jobs. A callback
\* that has done its writes stays at the await of its message edit: what
\* follows in the handler only reads.
NextAssign ==
    \/ \E u \in director_users, j \in JobIds :
          handle_toggle_job(u, j) /\ UNCHANGED <<requests, job_notes, weather_cache>>
    \/ \E r \in ReqIds, u \in director_users, e \in employee_users :
          callback_handler_arrive_assign(r, u, e)
    \/ \E r \in ReqIds : callback_handler_answered(r)
    \/ \E r \in ReqIds : callback_handler_dispatch_assign(r)
    \/ \E j \in Rows : emp_start_job(j) /\ UNCHANGED <<requests, job_notes, weather_cache>>

SpecAssign == InitAssign /\ [][NextAssign]_vars
\* ------------------------------------------------- the senders of callbacks
\* user_role.get_user_role: the first role table that holds the id.
get_user_role(user_id) ==
    IF user_id \in dev_users THEN "Dev"
    ELSE IF user_id \in director_users THEN "Director"
    ELSE IF user_id \in employee_users THEN "Employee"
    ELSE "Generic"

\* Helpers.validate_user_access: role_hierarchy maps a required role to the
\* roles that have it; a required role it does not know is had by nobody.
validate_user_access(user_id, required_role) ==
    LET role_hierarchy ==
          [Dev |-> {"Dev"},
           Director |-> {"Dev", "Director"},
           Employee |-> {"Dev", "Director", "Employee"},
           Generic |-> {"Dev", "Director", "Employee", "Generic"}]
    IN required_role \in DOMAIN role_hierarchy
          /\ get_user_role(user_id) \in role_hierarchy[required_role]

\* The prefixes of callback data that lead to a write of the table or of the
\* selection, and the senders explored: a user without a role, an employee
\* who is no developer, and a director.
GateData ==
    {"start_job_", "start_job_with_notes_", "finish_job_", "toggle_job_",
     "assign_to_"}
GateSenders == {Stranger, Alex} \cup Dispatchers

\* callback_handler as one step: the callback of sender u is answered and the
\* handler its data selects runs. The elif chain tests
\* 'start_job_with_notes_' before 'start_job_'. requests[1] keeps the
\* callback handled last and who sent it.
callback_handler(u, data, job_id, employee_id) ==
    /\ CASE data = "toggle_job_" -> handle_toggle_job(u, job_id)
         [] data = "assign_to_" -> assign_jobs_to_employee(u, employee_id)
         [] data = "start_job_with_notes_" -> start_job(job_id)
         [] data = "start_job_" -> emp_start_job(job_id)
         [] data = "finish_job_" -> emp_finish_job(job_id)
    /\ requests' = [requests EXCEPT ![1] =
                      [pc |-> "done", data |-> data, job_id |-> job_id,
                       user |-> u, outcome |-> reply'.msg, wrote |-> NULL]]
    /\ UNCHANGED <<job_notes, weather_cache>>

NextGate ==
    \/ Tick /\ UNCHANGED <<requests, job_notes, weather_cache>>
    \/ \E u \in GateSenders, d \in GateData, j \in JobIds,
          e \in employee_users : callback_handler(u, d, j, e)

SpecGate == Init /\ [][NextGate]_vars

\* -------------------------------------------------------------- job notes
\* The attributes the JobNote model maps, and the keyword arguments
\* NoteService.add_note passes to its constructor. The declarative
\* constructor raises TypeError for a keyword that is no mapped attribute.
JobNoteColumns ==
    {"id", "job_id", "author_id", "author_role", "note", "created_at"}
AddNoteKwargs ==
    {"job_id", "author_id", "author_name", "author_role", "note",
     "photo_path", "created_at"}
JobNote_accepts(kwargs) == kwargs \subseteq JobNoteColumns

\* What NoteService.add_note returns: True after db.add and db.commit;
\* False when the constructor raised (except Exception) or the store did
\* (except SQLAlchemyError), after a rollback.
add_note_returns(store_ok) == JobNote_accepts(AddNoteKwargs) /\ store_ok

\* The table job_notes after the call; the foreign key is not enforced, any
\* job_id is stored.
add_note_rows(job_id, user_id, note, store_ok) ==
    IF add_note_returns(store_ok)
    THEN Append(job_notes,
                [job_id |-> job_id, author_id |-> user_id,
                 author_role |-> get_user_role(user_id), note |-> note,
                 created_at |-> now])
    ELSE job_notes

\* NoteService.add_note called on its own.
add_note(job_id, user_id, note, store_ok) ==
    /\ job_notes' = add_note_rows(job_id, user_id, note, store_ok)
    /\ reply' = IF add_note_returns(store_ok)
                THEN Said("add_note", TRUE, "True", 0)
                ELSE IF ~JobNote_accepts(AddNoteKwargs)
                THEN Said("add_note", FALSE, "Unexpected error adding note", 0)
                ELSE Said("add_note", FALSE, "Database error adding note", 0)
    /\ UNCHANGED <<grounds_data, user_data, now>>

\* 'add_note_<id>': JobHandler.prepare_add_note, the first branch of
\* callback_handler that matches, opens the note prompt for the job.
prepare_add_note(u, job_id) ==
    /\ user_data' = [user_data EXCEPT ![u].awaiting_note_for = job_id]
    /\ reply' = Said("prepare_add_note", TRUE, "Please type your note", 0)
    /\ UNCHANGED <<grounds_data, now, job_notes>>

\* JobHandler.handle_text, the handler main() registers for text messages:
\* without a prompt it returns; otherwise it pops the prompt, calls
\* add_note and reports what add_note returned.
handle_text(u, note, store_ok) ==
    LET job_id == user_data[u].awaiting_note_for IN
    /\ UNCHANGED <<grounds_data, now>>
    /\ IF job_id = NULL
       THEN /\ reply' = Said("handle_text", FALSE, "no reply", 0)
            /\ UNCHANGED <<user_data, job_notes>>
       ELSE /\ user_data' = [user_data EXCEPT ![u].awaiting_note_for = NULL]
            /\ job_notes' = add_note_rows(job_id, u, note, store_ok)
            /\ reply' = IF add_note_returns(store_ok)
                        THEN Said("handle_text", TRUE, "Note added successfully!", 0)
                        ELSE Said("handle_text", FALSE, "Failed to save note", 0)

\* What the parameter 'update' of a decorator's wrapper is bound to. The
\* wrappers of decorators.py are declared (update, context, *args); applied
\* to a method and called through the instance, their first positional
\* argument is the handler object, not the Update.
wrapper_update(is_method) == IF is_method THEN "JobHandler" ELSE "Update"

\* JobHandler.handle_job_note behind error_handler and employee_required.
\* validate_user_access reads update.effective_user, error_handler's except
\* branch reads update.callback_query: on the handler object both raise
\* AttributeError, which leaves the method before its body runs. The body
\* itself pops the prompt, calls add_note, drops its result and sends the
\* success message.
handle_job_note(u, note, store_ok) ==
    LET job_id == user_data[u].awaiting_note_for IN
    /\ UNCHANGED <<grounds_data, now>>
    /\ IF wrapper_update(TRUE) # "Update"
       THEN /\ reply' = Said("handle_job_note", FALSE, "AttributeError", 0)
            /\ UNCHANGED <<user_data, job_notes>>
       ELSE IF ~validate_user_access(u, "Employee")
       THEN /\ reply' = Said("handle_job_note", FALSE, "You don't have permission", 0)
            /\ UNCHANGED <<user_data, job_notes>>
       ELSE IF job_id = NULL
       THEN /\ reply' = Said("handle_job_note", FALSE, "no reply", 0)
            /\ UNCHANGED <<user_data, job_notes>>
       ELSE /\ user_data' = [user_data EXCEPT ![u].awaiting_note_for = NULL]
            /\ job_notes' = add_note_rows(job_id, u, note, store_ok)
            /\ reply' = Said("handle_job_note", TRUE, "Note added successfully!", 0)

\* handle_text of telegram_bot.py: with a prompt it calls handle_job_note,
\* whose exception ends it; without one it goes on to JobHandler.handle_text.
telegram_bot_handle_text(u, note, store_ok) ==
    IF user_data[u].awaiting_note_for # NULL
    THEN handle_job_note(u, note, store_ok)
    ELSE handle_text(u, note, store_ok)

\* The senders of notes, the text of a message, and the note prompts and
\* messages of the chat together with direct calls of the note service.
NoteSenders == {Stranger, Alex} \cup Dispatchers
NoteTexts == {"note"}

NextNote ==
    \/ Tick /\ UNCHANGED <<requests, job_notes, weather_cache>>
    \/ \E u \in NoteSenders, j \in JobIds :
          prepare_add_note(u, j) /\ UNCHANGED <<requests, weather_cache>>
    \/ \E u \in NoteSenders, t \in NoteTexts, ok \in BOOLEAN :
          handle_text(u, t, ok) /\ UNCHANGED <<requests, weather_cache>>
    \/ \E u \in NoteSenders, t \in NoteTexts, ok \in BOOLEAN :
          telegram_bot_handle_text(u, t, ok) /\ UNCHANGED <<requests, weather_cache>>
    \/ \E u \in NoteSenders, j \in JobIds, t \in NoteTexts, ok \in BOOLEAN :
          add_note(j, u, t, ok) /\ UNCHANGED <<requests, weather_cache>>

SpecNote == Init /\ [][NextNote]_vars

\* ------------------------------------------------- the reset and the store
\* Where the store can fail inside reset_jobs_daily: at cursor.execute, or
\* at conn.commit after the UPDATE has run.
FailPoints == {"execute", "commit"}

\* Mutant of reset_jobs_daily_store_error: no except branch, the
\* sqlite3.Error leaves the callback.
reset_jobs_daily_store_error_NoExcept(fail_at) ==
    /\ grounds_data' =
         [r \in DOMAIN grounds_data |->
            IF fail_at = "commit" /\ r \in DailyResetRows
            THEN [grounds_data[r] EXCEPT
                    !.status = "pending", !.assigned_to = NULL,
                    !.start_time = NULL, !.finish_time = NULL]
            ELSE grounds_data[r]]
    /\ reply' = Said("reset_jobs_daily", FALSE, "sqlite3.Error", 0)
    /\ UNCHANGED <<now, user_data>>

\* reset_jobs_daily when the store fails: 'except Exception' logs the error
\* and the callback returns. A failure of execute leaves the rows as they
\* were; after a failure of commit the UPDATE stays in the open transaction
\* of the one shared connection, through which every handler reads.
reset_jobs_daily_store_error(fail_at) ==
    /\ grounds_data' =
         [r \in DOMAIN grounds_data |->
            IF fail_at = "commit" /\ r \in DailyResetRows
            THEN [grounds_data[r] EXCEPT
                    !.status = "pending", !.assigned_to = NULL,
                    !.start_time = NULL, !.finish_time = NULL]
            ELSE grounds_data[r]]
    /\ reply' = Said("reset_jobs_daily", FALSE, "Error resetting jobs", 0)
    /\ UNCHANGED <<now, user_data>>

\* The employees' requests, the assignment for today, the passing of the
\* days, and the runs of the scheduled reset, with the store working or not.
NextSched ==
    \/ Tick /\ UNCHANGED <<requests, job_notes, weather_cache>>
    \/ \E j \in JobIds : emp_start_job(j) /\ UNCHANGED <<requests, job_notes, weather_cache>>
    \/ \E j \in JobIds : emp_finish_job(j) /\ UNCHANGED <<requests, job_notes, weather_cache>>
    \/ \E j \in JobIds, e \in employee_users : assign_to_employee(j, e, Today) /\ UNCHANGED <<requests, job_notes, weather_cache>>
    \/ Midnight /\ UNCHANGED <<requests, job_notes, weather_cache>>
    \/ reset_jobs_daily /\ UNCHANGED <<requests, job_notes, weather_cache>>
    \/ \E f \in FailPoints : reset_jobs_daily_store_error(f) /\ UNCHANGED <<requests, job_notes, weather_cache>>

SpecSched == Init /\ [][NextSched]_vars

\* -------------------------------------------------------- the photo prompt
\* 'job_menu_<id>', the data of the job list's buttons and of the 'Cancel'
\* button of the upload prompt: the job card is shown, or 'Job not found'.
\* context.user_data is not touched.
emp_job_menu(u, job_id) ==
    /\ reply' = IF Exists(job_id)
                THEN Said("emp_job_menu", TRUE, "job card", 0)
                ELSE Said("emp_job_menu", FALSE, "Job not found", 0)
    /\ UNCHANGED <<grounds_data, user_data, now>>

\* One user's way through the upload prompt: 'Upload Photo', photo
\* messages, 'Done Uploading', 'Cancel', and the dashboard.
NextPrompt ==
    \/ \E u \in Uploaders, j \in JobIds : emp_upload_photo(u, j) /\ UNCHANGED <<requests, job_notes, weather_cache>>
    \/ \E u \in Uploaders, j \in JobIds : finish_photo_upload(u, j) /\ UNCHANGED <<requests, job_notes, weather_cache>>
    \/ \E u \in Uploaders, j \in JobIds : emp_job_menu(u, j) /\ UNCHANGED <<requests, job_notes, weather_cache>>
    \/ \E u \in Uploaders : emp_employee_dashboard(u) /\ UNCHANGED <<requests, job_notes, weather_cache>>
    \/ \E u \in Uploaders, f \in NewFiles, ok \in BOOLEAN : handle_photo(u, f, ok) /\ UNCHANGED <<requests, job_notes, weather_cache>>

SpecPrompt == Init /\ [][NextPrompt]_vars

\* --------------------------------------------------- weather_integration.py
\* WEATHER_API_KEY is read from the environment once, at import. The runs
\* explored have it set: without it every call returns None before the cache
\* is looked at, and nothing is ever cached.
WEATHER_API_KEY_set == TRUE

\* The instants at which something happens: every full cache lifetime, and
\* FetchTime seconds after it. Time moves from one instant to the next, but
\* not past the moment a waiting call has its response (or its failure).
Instants ==
    {c * CACHE_EXPIRY + d : c \in 0..MaxElapsed, d \in {0, FetchTime}}
Elapse ==
    LET later == {t \in Instants : t > now} IN
    /\ later # {}
    /\ now' = CHOOSE t \in later : \A x \in later : t <= x
    /\ \A r \in ReqIds :
          requests[r].pc = "fetching" =>
             now' - requests[r].current_time <= FetchTime
    /\ UNCHANGED <<grounds_data, user_data, reply, requests, job_notes,
                   weather_cache>>

\* get_weather_forecast(location, days) up to its first await: current_time
\* is taken, a cached entry younger than CACHE_EXPIRY is returned, otherwise
\* the request is sent to the API and the call waits for the response. The
\* record of a call that has returned keeps what it returned (outcome:
\* "cached", "fetched" or "None", and the data) and when.
get_weather_forecast_call(r, key) ==
    LET entry == weather_cache[key]
        current_time == now
    IN
    /\ requests[r].pc \in {"none", "done"}
    /\ requests' = [requests EXCEPT ![r] =
          IF ~WEATHER_API_KEY_set
          THEN [pc |-> "done", key |-> key, current_time |-> NULL,
                outcome |-> "None", data |-> NULL, finished |-> now]
          ELSE IF entry # NoEntry /\ current_time - entry.timestamp < CACHE_EXPIRY
          THEN [pc |-> "done", key |-> key, current_time |-> NULL,
                outcome |-> "cached", data |-> entry.data, finished |-> now]
          ELSE [pc |-> "fetching", key |-> key, current_time |-> current_time,
                outcome |-> "none", data |-> NULL, finished |-> NULL]]
    /\ UNCHANGED <<grounds_data, user_data, now, reply, job_notes,
                   weather_cache>>

\* The response arrives. Status 200: the processed data (the forecast as of
\* now, or None when the body has no 'list') is stored under the key with
\* the current_time the call took when it began, and returned. Any other
\* status, or an exception of the request: None, and no entry is written.
get_weather_forecast_response(r, status, has_list) ==
    LET key == requests[r].key
        processed_data == IF has_list THEN now ELSE NULL
    IN
    /\ requests[r].pc = "fetching"
    /\ IF status = 200
       THEN /\ weather_cache' =
                 [weather_cache EXCEPT ![key] =
                    [data |-> processed_data,
                     timestamp |-> requests[r].current_time]]
            /\ requests' = [requests EXCEPT ![r] =
                 [pc |-> "done", key |-> key, current_time |-> NULL,
                  outcome |-> "fetched", data |-> processed_data,
                  finished |-> now]]
       ELSE /\ UNCHANGED weather_cache
            /\ requests' = [requests EXCEPT ![r] =
                 [pc |-> "done", key |-> key, current_time |-> NULL,
                  outcome |-> "None", data |-> NULL, finished |-> now]]
    /\ UNCHANGED <<grounds_data, user_data, now, reply, job_notes>>

\* The HTTP statuses of a response; 0 stands for a request that raised.
HttpStatus == {200, 500, 0}

NextWeather ==
    \/ Elapse
    \/ \E r \in ReqIds, k \in CacheKeys : get_weather_forecast_call(r, k)
    \/ \E r \in ReqIds, st \in HttpStatus, b \in BOOLEAN :
          get_weather_forecast_response(r, st, b)

SpecWeather == Init /\ [][NextWeather]_vars

\* =================================================================== claims
\* A step that is a Start (Finish) request for job j, by the chat handler or
\* by the service.
StartStep(j) == emp_start_job(j) \/ start_job(j)
FinishStep(j) == emp_finish_job(j) \/ finish_job(j)
Row(j) == grounds_data[j]

\* C1: StartJob on a job that is in_progress is a no-op: status and
\* start_time stay exactly as the first Start wrote them.
C1_StartInProgressIsNoOp ==
    [][\A j \in Rows :
         (Row(j).status = "in_progress" /\ StartStep(j))
            => /\ grounds_data'[j].status = "in_progress"
               /\ grounds_data'[j].start_time = Row(j).start_time]_vars

\* C2: StartJob on a completed job is rejected: status, start_time and
\* finish_time stay unchanged.
C2_StartCompletedRejected ==
    [][\A j \in Rows :
         (Row(j).status = "completed" /\ StartStep(j))
            => /\ grounds_data'[j].status = "completed"
               /\ grounds_data'[j].start_time = Row(j).start_time
               /\ grounds_data'[j].finish_time = Row(j).finish_time
               /\ ~reply'.ok]_vars

\* C3: FinishJob on a pending job fails with 'not started' and mutates
\* nothing: status stays pending, finish_time stays as it was.
C3_FinishPendingRejected ==
    [][\A j \in Rows :
         (Row(j).status = "pending" /\ FinishStep(j))
            => /\ grounds_data'[j].status = "pending"
               /\ grounds_data'[j].finish_time = Row(j).finish_time
               /\ ~reply'.ok]_vars

C5_OnlyLegalTransitions ==
    [][\A j \in Rows :
         grounds_data'[j].status # Row(j).status
            => \/ /\ Row(j).status = "pending"
                  /\ grounds_data'[j].status = "in_progress"
                  /\ reply'.op \in {"emp_start_job", "start_job"}
               \/ /\ Row(j).status = "in_progress"
                  /\ grounds_data'[j].status = "completed"
                  /\ reply'.op \in {"emp_finish_job", "finish_job"}
               \/ /\ Row(j).status = "completed"
                  /\ grounds_data'[j].status = "pending"
                  /\ reply'.op \in {"reset_jobs_daily", "reset_completed_jobs"}]_vars

\* C6: every in_progress job has start_time set and finish_time NULL.
C6_InProgressTimes ==
    \A j \in Rows :
        Row(j).status = "in_progress"
            => Row(j).start_time # NULL /\ Row(j).finish_time = NULL

\* C7: every completed job has both timestamps set with finish_time >=
\* start_time, and any job with both timestamps set has finish_time >=
\* start_time.
C7_CompletedTimesOrdered ==
    \A j \in Rows :
        /\ Row(j).status = "completed"
              => Row(j).start_time # NULL /\ Row(j).finish_time # NULL
        /\ (Row(j).start_time # NULL /\ Row(j).finish_time # NULL)
              => Row(j).finish_time >= Row(j).start_time

\* C8: every pending job has finish_time NULL, also after a reset and after
\* an assignment that sets the job to pending.
C8_PendingHasNoFinishTime ==
    \A j \in Rows : Row(j).status = "pending" => Row(j).finish_time = NULL
\* A step that is a photo message of some user for job j carrying path p
\* (the file was downloaded and saved), or the service call for j and p.
PhotoStep(j, p) ==
    \/ add_photo(j, p)
    \/ \E u \in Uploaders, f \in NewFiles :
          /\ user_data[u].awaiting_photo_for = j
          /\ p = PhotoPath(j, f)
          /\ handle_photo(u, f, TRUE)

\* C9: no job ever stores more photo paths than the configured maximum.
C9_PhotoCountAtMostMax ==
    \A j \in Rows : Len(PhotoList(Row(j).photos)) <= MAX_PHOTOS_PER_JOB

\* C9 witness: a job holds the maximum and a further photo was refused.
C9_Witness ==
    \E j \in Rows :
        /\ Len(PhotoList(Row(j).photos)) = MAX_PHOTOS_PER_JOB
        /\ reply.op = "handle_photo"
        /\ reply.msg = "Photo Limit Reached"

ResetStep == reset_jobs_daily \/ reset_completed_jobs

\* The row the reset must leave for a completed job it targets.
ResetRow(row) ==
    [row EXCEPT !.status = "pending", !.assigned_to = NULL,
                !.start_time = NULL, !.finish_time = NULL]

\* C11: a reset sets status = pending and clears assigned_to, start_time and
\* finish_time for exactly the completed jobs whose scheduled_date is NULL or
\* today, and leaves every other job and every other field unchanged.
C11_ResetExactlyCompletedDue ==
    [][ResetStep =>
          \A j \in Rows :
             grounds_data'[j] =
                IF /\ Row(j).status = "completed"
                   /\ Row(j).scheduled_date \in {NoDate, Today}
                THEN ResetRow(Row(j))
                ELSE Row(j)]_vars

\* C12: right after a reset the rows that a reset of the same
\* implementation targets are none, so a second run in a row affects 0 rows,
\* and that second run leaves the table as the first run left it.
C12_ResetIdempotent ==
    /\ [](reply.op = "reset_jobs_daily" => DailyResetRows = {})
    /\ [](reply.op = "reset_completed_jobs" => ServiceResetRows = {})
    /\ [][/\ (reply.op = "reset_jobs_daily" /\ reset_jobs_daily)
               => (grounds_data' = grounds_data /\ reply'.count = 0)
          /\ (reply.op = "reset_completed_jobs" /\ reset_completed_jobs)
               => (grounds_data' = grounds_data /\ reply'.count = 0)]_vars

\* C12 witness: a reset has just returned a completed job to pending (it
\* affected a row), at a later time than the job was started; the next reset
\* is the second run in a row.
C12_Witness ==
    /\ reply.op \in {"reset_jobs_daily", "reset_completed_jobs"}
    /\ reply.count > 0
    /\ now > 0
    /\ \E j \in Rows : Row(j).status = "pending" /\ Row(j).assigned_to = NULL
\* C13: with the reset running every day, no job remains completed forever:
\* every job that is completed is eventually taken out of completed again.
C13_NoJobCompletedForever ==
    \A j \in Rows : []<>(Row(j).status # "completed")
\* The selection of user u, and a step in which u assigns it to employee e.
Selection(u) == user_data[u].selected_jobs
AssignSelectedStep(u, e) == Selection(u) # {} /\ assign_jobs_to_employee(u, e)

\* C14: after a successful assignment of a non-empty selection to a worker
\* the user's selection is empty and every selected job is assigned to that
\* worker.
C14_AssignClearsSelection ==
    [][\A u \in Users, e \in employee_users :
         AssignSelectedStep(u, e)
            => /\ user_data'[u].selected_jobs = {}
               /\ reply'.ok
               /\ \A j \in Selection(u) \cap Rows :
                     grounds_data'[j].assigned_to = e]_vars

\* C14 witness: a selection holding an existing job was assigned: the job
\* carries the worker and the selection is empty again.
C14_Witness ==
    /\ reply = Said("assign_jobs_to_employee", TRUE, "Jobs Assigned", 0)
    /\ \E j \in Rows : Row(j).assigned_to \in employee_users
    /\ \A u \in Dispatchers : Selection(u) = {}

\* C15: an assignment writes a job's assigned_to, status = pending and the
\* given scheduled_date together: after it no assigned job has the new
\* worker without status = pending.
C15_AssignWritesAllFields ==
    [][/\ \A u \in Users, e \in employee_users :
            AssignSelectedStep(u, e)
               => \A j \in Selection(u) \cap Rows :
                     /\ grounds_data'[j].assigned_to = e
                     /\ grounds_data'[j].status = "pending"
       /\ \A j \in Rows, e \in employee_users, d \in {Today, OtherDay} :
            assign_to_employee(j, e, d)
               => /\ grounds_data'[j].assigned_to = e
                  /\ grounds_data'[j].status = "pending"
                  /\ grounds_data'[j].scheduled_date = d]_vars

\* A step that assigns job j, by the chat handler or by the service.
AssignStep(j) ==
    \/ \E e \in employee_users, d \in {Today, OtherDay} :
          assign_to_employee(j, e, d)
    \/ \E u \in Users, e \in employee_users :
          j \in Selection(u) /\ assign_jobs_to_employee(u, e)

\* C16: assigning a job, whatever its status, leaves its status, start_time
\* and finish_time unchanged.
C16_AssignKeepsStatus ==
    [][\A j \in Rows :
         AssignStep(j)
            => /\ grounds_data'[j].status = Row(j).status
               /\ grounds_data'[j].start_time = Row(j).start_time
               /\ grounds_data'[j].finish_time = Row(j).finish_time]_vars

\* C17: an assignment attempted with an empty (or absent) selection is
\* turned away with 'No Jobs Selected' and changes no job.
C17_EmptySelectionRejected ==
    [][\A u \in Users :
         (/\ Selection(u) = {}
          /\ \/ director_assign_jobs(u)
             \/ \E e \in employee_users : assign_jobs_to_employee(u, e))
            => /\ grounds_data' = grounds_data
               /\ ~reply'.ok
               /\ reply'.msg = "No Jobs Selected"]_vars

\* C17 witness: "Assign to <employee>" arrived with nothing selected, after
\* a job had been given to a worker by an earlier assignment, and was turned
\* away.
C17_Witness ==
    /\ reply = Said("assign_jobs_to_employee", FALSE, "No Jobs Selected", 0)
    /\ \A u \in Users : Selection(u) = {}
    /\ \E j \in Rows : Row(j).assigned_to \in employee_users

\* C18: toggling the same job id twice returns the selection to its content
\* before the first toggle, for every selection and every job id, and a toggle
\* never writes the job table.
C18_ToggleTwiceIsIdentity ==
    [][\A u \in Users, j \in JobIds :
         handle_toggle_job(u, j)
            => /\ ToggleSelection(user_data'[u].selected_jobs, j) = Selection(u)
               /\ grounds_data' = grounds_data]_vars

\* C18 witness: toggles have built a selection of two job ids.
C18_Witness ==
    \E u \in Dispatchers :
        /\ reply.op = "handle_toggle_job"
        /\ Cardinality(Selection(u)) = 2
\* The jobs a director sees walking the list from page 1 on with "Next",
\* which is offered as long as the page shown is full.
RECURSIVE PageWalk(_)
PageWalk(page) ==
    LET jobs == build_director_assign_jobs_page(page)
    IN IF Len(jobs) = jobs_per_page THEN jobs \o PageWalk(page + 1) ELSE jobs

\* C19: with the table unchanged between the page requests, the pages
\* 1, 2, 3, ... show the unassigned jobs in ascending id order, every
\* unassigned job exactly once and no assigned job.
C19_PagesShowEachUnassignedOnce ==
    LET walk == PageWalk(1) IN
    /\ \A i, k \in 1..Len(walk) : i < k => walk[i] < walk[k]
    /\ {walk[i] : i \in 1..Len(walk)} =
          {j \in DOMAIN grounds_data : grounds_data[j].assigned_to = NULL}

\* C19 witness: the second page was asked for and shows the jobs beyond the
\* first ten unassigned ones.
C19_Witness ==
    /\ reply.op = "page_"
    /\ reply.page = 2
    /\ reply.jobs # <<>>
    /\ Cardinality({j \in DOMAIN grounds_data :
                       grounds_data[j].assigned_to = NULL}) > jobs_per_page
\* The Start callbacks for job j whose handler has run its test and write.
Handled(j) ==
    {r \in ReqIds : requests[r].job_id = j /\ requests[r].outcome # "none"}

\* C20: of the Start requests handled for one pending job, however they
\* interleave, exactly one writes start_time, every other one gets the
\* already-started outcome, and start_time is what that one request wrote.
C20_ConcurrentStartWritesOnce ==
    \A j \in Rows :
        Handled(j) # {} =>
            \E w \in Handled(j) :
                /\ requests[w].wrote # NULL
                /\ Row(j).start_time = requests[w].wrote
                /\ \A r \in Handled(j) \ {w} :
                      /\ requests[r].wrote = NULL
                      /\ requests[r].outcome = "Already Started"
\* The assignment callbacks whose handler has run and assigned job j.
Assigned(j) ==
    {r \in ReqIds : /\ requests[r].data = "assign_to_"
                    /\ requests[r].outcome = "Jobs Assigned"
                    /\ j \in requests[r].jobs}

\* C21: assignments of two directors that are in flight together all report
\* success, and a job that several of them selected carries the worker of the
\* one that wrote last, whether or not it had a worker before.
C21_LastAssignmentWins ==
    /\ \A r \in ReqIds :
          (requests[r].data = "assign_to_" /\ requests[r].outcome # "none")
             => (requests[r].jobs # {} <=> requests[r].outcome = "Jobs Assigned")
    /\ \A j \in DOMAIN grounds_data :
          Assigned(j) # {} =>
             \E w \in Assigned(j) :
                /\ \A r \in Assigned(j) : requests[r].order <= requests[w].order
                /\ grounds_data[j].assigned_to = requests[w].employee_id

\* C21 witness: two directors assigned overlapping selections to different
\* workers, both were told 'Jobs Assigned', and a job of the overlap carries
\* the worker of the later one.
C21_Witness ==
    \E j \in DOMAIN grounds_data : \E r1, r2 \in Assigned(j) :
        /\ requests[r1].user # requests[r2].user
        /\ requests[r1].employee_id # requests[r2].employee_id
        /\ requests[r1].order < requests[r2].order
        /\ grounds_data[j].assigned_to = requests[r2].employee_id

C22_MissingJobNotFound ==
    [][\A j \in JobIds \ DOMAIN grounds_data :
         (\/ StartStep(j)
          \/ FinishStep(j)
          \/ \E f \in NewFiles : PhotoStep(j, PhotoPath(j, f)))
            => /\ grounds_data' = grounds_data
               /\ ~reply'.ok
               /\ reply'.msg \in {"Job not found", "Ground not found"}]_vars

\* The callback handled last, and the kind of operation it asked for.
LastCallback == requests[1]

\* C23: no write of a job's row is reached from a callback whose sender's
\* role does not permit the operation: Start and Finish need the Employee
\* level, Assign the Director level.
C23_RoleGateBeforeMutation ==
    [][\A j \in Rows :
         grounds_data'[j] # grounds_data[j] =>
            IF LastCallback'.data = "assign_to_"
            THEN validate_user_access(LastCallback'.user, "Director")
            ELSE validate_user_access(LastCallback'.user, "Employee")]_vars

\* C27: Start or Finish changes a job's status only when the request comes
\* from the worker the job is assigned to.
C27_OnlyAssigneeStartsOrFinishes ==
    [][\A j \in Rows :
         Row(j)'.status # Row(j).status =>
            LastCallback'.user = Row(j).assigned_to]_vars

\* C24: with a working store every AddNote call appends exactly one Note row
\* and returns true; it returns false only when the store fails; and no step
\* updates or deletes a Note row that is already there.
C24_AddNoteAppendsOneRow ==
    [][/\ \A j \in JobIds, u \in NoteSenders, t \in NoteTexts :
            /\ add_note(j, u, t, TRUE) =>
                  /\ reply'.ok
                  /\ Len(job_notes') = Len(job_notes) + 1
            /\ add_note(j, u, t, FALSE) => ~reply'.ok
       /\ Len(job_notes') >= Len(job_notes)
       /\ SubSeq(job_notes', 1, Len(job_notes)) = job_notes]_vars

\* A step that is a text message of user u, through either text handler.
TextStep(u) ==
    \E t \in NoteTexts, ok \in BOOLEAN :
       handle_text(u, t, ok) \/ telegram_bot_handle_text(u, t, ok)

FailedResetStep == \E f \in FailPoints : reset_jobs_daily_store_error(f)

PromptClosed == reply.op \in {"none", "finish_photo_upload", "emp_job_menu"}

\* C26: a photo message is attached to a job only while its sender's session
\* holds the upload prompt for that job; a photo sent before any 'Upload
\* Photo', after 'Done Uploading' or after 'Cancel' is answered 'No photo
\* expected' and changes no job's photo list.
C26_PhotoOnlyWhilePromptOpen ==
    [][\A u \in Uploaders, f \in NewFiles, ok \in BOOLEAN :
         handle_photo(u, f, ok) =>
            /\ \A j \in Rows :
                  Row(j)'.photos # Row(j).photos =>
                     user_data[u].awaiting_photo_for = j
            /\ PromptClosed =>
                  /\ reply'.msg = "No photo expected"
                  /\ grounds_data' = grounds_data]_vars

\* Key k was fetched successfully less than CACHE_EXPIRY ago: some call for
\* it has returned data of a 200 response that recently.
FetchedRecently(k) ==
    \E q \in ReqIds :
       /\ requests[q].pc = "done"
       /\ requests[q].outcome = "fetched"
       /\ requests[q].key = k
       /\ now - requests[q].finished < CACHE_EXPIRY

====
